---- MODULE Spec2Model ----
(***************************************************************************)
(* Model of src/src/callable.c (lgi: calling from Lua to C and back).      *)
(*                                                                         *)
(* Several views of the file are modelled, each with its specification:    *)
(*   Spec / SpecSolo / FairSpec  the call mutex (Concurrency Guard) as     *)
(*                      forward calls and trampolines lock and unlock it   *)
(*   SpecBuild          lgi_callable_create and the callable cache         *)
(*   SpecFrame          the same, with the ffi_args of forward calls       *)
(*   SpecCall           callable_call's work on the Lua stack              *)
(*   SpecDestroy        invocation and destruction of libffi closures      *)
(*   SpecTramp          closure_callback on the Lua stack                  *)
(*   SpecEvent          lgi_gclosure_marshal on the Lua stack              *)
(*   SpecSwitch         callback_prepare_call on the contexts' stacks      *)
(* The variables of the views a specification does not use stay at their   *)
(* initial value.                                                          *)
(***************************************************************************)
EXTENDS Integers, Sequences, FiniteSets, TLC

VARIABLES
    \* ---- call mutex and threads
    owner,      \* GStaticRecMutex: the owning OS thread, or NoThread
    depth,      \* GStaticRecMutex: recursion depth
    pc,         \* per OS thread: where it executes
    stack,      \* per OS thread: the bridge's C frames, outermost first
    cbL,        \* per closure: Callback.L
    cbThread,   \* per closure: the context Callback.thread_ref refers to
    nextCtx,    \* the next lua_State lua_newthread creates
    calls,      \* trampoline invocations and targets' forward calls so far
    halted,     \* the process has exited (Lua panic)
    active,     \* the OS threads that run
    \* ---- callable cache
    infos,      \* the callable descriptions (GICallableInfo) there are
    cache,      \* key -> cached Callable, or NoPlan
    created,    \* number of Callable userdata allocated so far
    last,       \* the last lgi_callable_create call and its outcome
    frame,      \* ffi_args as callable_call fills it for a cached plan: index -> entry
    \* ---- one forward invocation on the Lua stack
    plan,       \* the Callable being called
    cpc,        \* callable_call's position
    lstack,     \* the Lua stack, bottom first
    lua_argi,   \* lua_argi: the stack index of the next argument to read
    nret,       \* nret
    caller_allocated, \* caller_allocated
    err,        \* the GError the native call set, or FALSE
    results,    \* the values callable_call returned
    posLog,     \* the positions handed to lgi_marshal_arg_2c_caller_alloc, and what lies there
    argReads,   \* the arguments read: <<parameter (0: self), stack index, value>>
    \* ---- life of the libffi closures (thunks)
    autodestroy,   \* per thunk: FfiClosure.autodestroy
    thunkStack,    \* the thunks whose closure_callback frames are live, outermost first
    guards,        \* per thunk: guards (lgi_guard_create) not yet collected
    destroyed,     \* per thunk: how often lgi_closure_destroy ran on it
    invocations,   \* invocations of thunks so far
    \* ---- one trampoline and its invocations on the Lua stack
    tcl,        \* the closure: kind, plan, target, creating context
    tpc,        \* position in closure_callback / lgi_gclosure_marshal
    tthread,    \* the context Callback.L and Callback.thread_ref refer to
    tnext,      \* the next lua_State lua_newthread creates
    tL,         \* L: the context the invocation runs in
    tcall,      \* call
    tstack,     \* the Lua stack of L, bottom first
    tentry,     \* the Lua stack of L when the invocation began
    stacktop,   \* stacktop
    tnpos,      \* npos / vals: the arguments pushed
    tres,       \* res
    tk,         \* how many values the target returned or yielded
    invoked,    \* how each invocation started its target: [mode, ctx]
    writes,     \* what was marshalled to native slots: <<slot, index, value>>
    \* ---- one Callback, the contexts' stacks and the registry
    callback,   \* Callback: L (a context), thread_ref, target_ref (references)
    registry,   \* reference -> the value luaL_ref stored, or NoRef
    ctxStack,   \* per context: its Lua stack, bottom first
    ctxStatus,  \* per context: lua_status
    ctxEntry,   \* the stacks as they were when the Callback was created
    spc,        \* per OS thread: position in the trampoline
    sL,         \* per OS thread: L of callback_prepare_call and of the trampoline
    sTop,       \* per OS thread: stacktop
    sOwner,     \* the OS thread inside the mutex
    sNext,      \* the next lua_State lua_newthread creates
    sCalls,     \* invocations so far
    sCrashed,   \* the process crashed
    ran         \* per invocation: the context the target was called on, its status

guardVars == <<owner, depth, pc, stack, cbL, cbThread, nextCtx, calls, halted, active>>
buildVars == <<infos, cache, created, last, frame>>
callVars  == <<plan, cpc, lstack, lua_argi, nret, caller_allocated, err, results, posLog,
               argReads>>
destroyVars == <<autodestroy, thunkStack, guards, destroyed, invocations>>
trampVars == <<tcl, tpc, tthread, tnext, tL, tcall, tstack, tentry, stacktop, tnpos, tres, tk,
               invoked, writes>>
switchVars == <<callback, registry, ctxStack, ctxStatus, ctxEntry, spc, sL, sTop, sOwner,
                sNext, sCalls, sCrashed, ran>>
moreVars == <<destroyVars, trampVars, switchVars>>
vars == <<guardVars, buildVars, callVars, moreVars>>

(***************************************************************************)
(* Bounds of the model.                                                    *)
(***************************************************************************)
MaxDepth == 3      \* nested bridge frames per OS thread
MaxCalls == 4      \* trampoline invocations and forward calls by targets in one behaviour

(***************************************************************************)
(* The call mutex and the threads.                                         *)
(***************************************************************************)
Threads == {"A", "B"}
NoThread == "none"

\* Thread A loaded the library and runs the Lua program; thread B is a
\* foreign thread that only runs native code and calls trampolines.
Base(t) == IF t = "A" THEN "lua" ELSE "native"

\* lua_State identities: 0 is the main state, 1 a coroutine of the program,
\* larger numbers are created by lua_newthread at callable.c:610.
MainCtx == 0
CoCtx == 1
NoCtx == -1
LUA_YIELD == 1
LUA_ERRRUN == 2

\* The closures of the behaviour, as lgi_closure_create / lgi_gclosure_create
\* and callback_create set them up.  target_ref is LUA_NOREF (call = FALSE)
\* when the target is a coroutine.
Closures == 1 .. 4
Closure(c) ==
    CASE c = 1 -> [kind |-> "typed", throws |-> FALSE, call |-> TRUE,  home |-> MainCtx]
      [] c = 2 -> [kind |-> "typed", throws |-> TRUE,  call |-> TRUE,  home |-> CoCtx]
      [] c = 3 -> [kind |-> "event", throws |-> FALSE, call |-> TRUE,  home |-> MainCtx]
      [] c = 4 -> [kind |-> "typed", throws |-> FALSE, call |-> FALSE, home |-> MainCtx]

\* A C frame of the bridge: callable_call stopped at ffi_call ("fwd") or a
\* trampoline ("tramp").  hold0 is the thread's hold count on entry, Lread the
\* value callback_prepare_call read from Callback.L, L the lua_State it runs.
FwdFrame(h) == [kind |-> "fwd", c |-> 0, hold0 |-> h, Lread |-> NoCtx, L |-> NoCtx]
TrampFrame(c, h) == [kind |-> "tramp", c |-> c, hold0 |-> h, Lread |-> NoCtx, L |-> NoCtx]

Top(t) == stack[t][Len(stack[t])]
TopIs(t, k) == Len(stack[t]) > 0 /\ Top(t).kind = k
Pop(s) == SubSeq(s, 1, Len(s) - 1)

\* The hold count of thread t on the mutex.
Hold(t) == IF owner = t THEN depth ELSE 0

Runs(t) == ~halted /\ t \in active

\* g_static_rec_mutex_lock: blocks while another thread owns the mutex.
CanLock(t) == owner \in {NoThread, t}
LockOwner(t) == t
LockDepth(t) == depth + 1

\* g_static_rec_mutex_unlock: one level; the mutex is free at depth 0.
UnlockOwner(t) == IF depth > 1 THEN owner ELSE NoThread
UnlockDepth(t) == depth - 1

\* lua_status of a context as callback_prepare_call finds it: only a
\* coroutine of the program can be suspended.
StatusOf(x) == IF x = CoCtx THEN {0, LUA_YIELD} ELSE {0}

InitGuard ==
    /\ owner = "A"
    /\ depth = 1
    /\ pc = [t \in Threads |-> Base(t)]
    /\ stack = [t \in Threads |-> << >>]
    /\ cbL = [c \in Closures |-> Closure(c).home]
    /\ cbThread = [c \in Closures |-> Closure(c).home]
    /\ nextCtx = CoCtx + 1
    /\ calls = 0
    /\ halted = FALSE
    /\ active = Threads

\* One OS thread runs; when it is B, thread A sits in a native call (a main
\* loop) that does not return.
InitGuardSolo ==
    /\ active \in {{"A"}, {"B"}}
    /\ owner = IF "A" \in active THEN "A" ELSE NoThread
    /\ depth = IF "A" \in active THEN 1 ELSE 0
    /\ pc = [t \in Threads |-> IF "A" \in active THEN Base(t) ELSE "native"]
    /\ stack = [t \in Threads |->
                  IF t = "A" /\ "A" \notin active THEN <<FwdFrame(1)>> ELSE << >>]
    /\ cbL = [c \in Closures |-> Closure(c).home]
    /\ cbThread = [c \in Closures |-> Closure(c).home]
    /\ nextCtx = CoCtx + 1
    /\ calls = 0
    /\ halted = FALSE

guardRest == <<cbL, cbThread, nextCtx, calls, halted, active>>

\* callable_call, lines 473-481: unlock the mutex and enter the native
\* function through ffi_call.
callable_call_unlock(t) ==
    /\ Runs(t) /\ pc[t] = "lua" /\ owner = t
    /\ Len(stack[t]) < MaxDepth
    /\ IF Len(stack[t]) > 0
       THEN calls < MaxCalls /\ calls' = calls + 1   \* a target terminates
       ELSE calls' = calls
    /\ stack' = [stack EXCEPT ![t] = Append(@, FwdFrame(Hold(t)))]
    /\ owner' = UnlockOwner(t)
    /\ depth' = UnlockDepth(t)
    /\ pc' = [pc EXCEPT ![t] = "native"]
    /\ UNCHANGED <<cbL, cbThread, nextCtx, halted, active, buildVars, callVars, moreVars>>

\* The native function returns from ffi_call (line 481); the thread arrives
\* at g_static_rec_mutex_lock.
ffi_call_return(t) ==
    /\ Runs(t) /\ pc[t] = "native" /\ TopIs(t, "fwd")
    /\ pc' = [pc EXCEPT ![t] = "relock"]
    /\ UNCHANGED <<owner, depth, stack, guardRest, buildVars, callVars, moreVars>>

\* callable_call, lines 484-551: lock the mutex again, marshal the results
\* and return to Lua.
callable_call_lock_nolock(t) ==
    /\ Runs(t) /\ pc[t] = "relock" /\ TopIs(t, "fwd")
    /\ stack' = [stack EXCEPT ![t] = Pop(@)]
    /\ pc' = [pc EXCEPT ![t] = "lua"]
    /\ UNCHANGED <<owner, depth, guardRest, buildVars, callVars, moreVars>>

callable_call_lock(t) ==
    /\ Runs(t) /\ pc[t] = "relock" /\ TopIs(t, "fwd")
    /\ CanLock(t)
    /\ owner' = LockOwner(t)
    /\ depth' = LockDepth(t)
    /\ stack' = [stack EXCEPT ![t] = Pop(@)]
    /\ pc' = [pc EXCEPT ![t] = "lua"]
    /\ UNCHANGED <<guardRest, buildVars, callVars, moreVars>>

\* Native code calls a trampoline: closure_callback (line 642) or
\* lgi_gclosure_marshal (line 850) is entered and calls callback_prepare_call.
closure_invoke(t, c) ==
    /\ Runs(t) /\ pc[t] = "native"
    /\ Len(stack[t]) < MaxDepth
    /\ calls < MaxCalls
    /\ calls' = calls + 1
    /\ stack' = [stack EXCEPT ![t] = Append(@, TrampFrame(c, Hold(t)))]
    /\ pc' = [pc EXCEPT ![t] = "prepare_read"]
    /\ UNCHANGED <<owner, depth, cbL, cbThread, nextCtx, halted, active,
                   buildVars, callVars, moreVars>>

\* callback_prepare_call, line 595: lua_State *L = callback->L, read before
\* the mutex is taken.
callback_prepare_call_read(t) ==
    /\ Runs(t) /\ pc[t] = "prepare_read"
    /\ stack' = [stack EXCEPT ![t][Len(stack[t])].Lread = cbL[Top(t).c]]
    /\ pc' = [pc EXCEPT ![t] = "prepare_lock"]
    /\ UNCHANGED <<owner, depth, guardRest, buildVars, callVars, moreVars>>

\* callback_prepare_call, lines 596-619, and the marshalling of the
\* arguments: lock the mutex, find the context behind thread_ref, switch the
\* closure to a new context when a callable target's context is suspended,
\* and start the target.
callback_prepare_call_lock(t) ==
    /\ Runs(t) /\ pc[t] = "prepare_lock"
    /\ CanLock(t)
    /\ owner' = LockOwner(t)
    /\ depth' = LockDepth(t)
    /\ pc' = [pc EXCEPT ![t] = "lua"]
    /\ LET c == Top(t).c
           L0 == cbThread[c]
       IN IF Closure(c).call
          THEN \E st \in StatusOf(L0) :
                 IF st # 0
                 THEN /\ cbThread' = [cbThread EXCEPT ![c] = nextCtx]
                      /\ cbL' = [cbL EXCEPT ![c] = nextCtx]
                      /\ nextCtx' = nextCtx + 1
                      /\ stack' = [stack EXCEPT ![t][Len(stack[t])].L = nextCtx]
                 ELSE /\ cbL' = [cbL EXCEPT ![c] = L0]
                      /\ stack' = [stack EXCEPT ![t][Len(stack[t])].L = L0]
                      /\ UNCHANGED <<cbThread, nextCtx>>
          ELSE /\ stack' = [stack EXCEPT ![t][Len(stack[t])].L = L0]
               /\ UNCHANGED <<cbL, cbThread, nextCtx>>
    /\ UNCHANGED <<calls, halted, active, buildVars, callVars, moreVars>>

\* The target is running (pc = "lua") in the trampoline on top of t's stack.
InTarget(t, kind) ==
    /\ Runs(t) /\ pc[t] = "lua" /\ TopIs(t, "tramp")
    /\ Closure(Top(t).c).kind = kind

\* Leave the trampoline by its last statement: unlock and return to the
\* native caller (closure_callback line 775, lgi_gclosure_marshal line 872).
UnlockAndReturn(t) ==
    /\ owner = t
    /\ owner' = UnlockOwner(t)
    /\ depth' = UnlockDepth(t)
    /\ stack' = [stack EXCEPT ![t] = Pop(@)]
    /\ pc' = [pc EXCEPT ![t] = "native"]
    /\ UNCHANGED <<guardRest, buildVars, callVars, moreVars>>

\* lua_error (lines 705, 867) or an error raised inside lua_call (lines 691,
\* 862): control leaves the trampoline by longjmp, neither line 775 nor line
\* 872 runs, nor line 484 of the forward calls the jump passes.  It lands at
\*  - a protected call of the Lua code below on this thread: the Lua program
\*    (k = 0) or the target of an outer trampoline (frame k);
\*  - nowhere (no protected call): Lua panics and the process exits;
\*  - in the host: its panic handler jumps back into the native code that
\*    called the trampoline (a thread whose outermost frame is native).
LuaErrorCaught(t, k) ==
    /\ k \in 0 .. Len(stack[t]) - 1
    /\ IF k = 0 THEN Base(t) = "lua" ELSE stack[t][k].kind = "tramp"
    /\ stack' = [stack EXCEPT ![t] = SubSeq(@, 1, k)]
    /\ pc' = [pc EXCEPT ![t] = "lua"]
    /\ UNCHANGED <<owner, depth, guardRest, buildVars, callVars, moreVars>>

LuaErrorPanic(t) ==
    /\ halted' = TRUE
    /\ UNCHANGED <<owner, depth, pc, stack, cbL, cbThread, nextCtx, calls, active,
                   buildVars, callVars, moreVars>>

LuaErrorHost(t) ==
    /\ Base(t) = "native"
    /\ stack' = [stack EXCEPT ![t] = << >>]
    /\ pc' = [pc EXCEPT ![t] = "native"]
    /\ UNCHANGED <<owner, depth, guardRest, buildVars, callVars, moreVars>>

lua_error(t) ==
    \/ \E k \in 0 .. MaxDepth : LuaErrorCaught(t, k)
    \/ LuaErrorPanic(t)
    \/ LuaErrorHost(t)

\* callable_call, lines 367-471: checking the callable or marshalling an
\* input raises a Lua error (luaL_error) before the mutex is unlocked at
\* line 478.
callable_call_marshal_error(t) ==
    /\ Runs(t) /\ pc[t] = "lua" /\ owner = t
    /\ Len(stack[t]) < MaxDepth
    /\ IF Len(stack[t]) > 0
       THEN calls < MaxCalls /\ calls' = calls + 1   \* a target terminates
       ELSE calls' = calls
    /\ stack' = [stack EXCEPT ![t] = Append(@, FwdFrame(Hold(t)))]
    /\ pc' = [pc EXCEPT ![t] = "error_in"]
    /\ UNCHANGED <<owner, depth, cbL, cbThread, nextCtx, halted, active,
                   buildVars, callVars, moreVars>>

\* callable_call, lines 484-549: the mutex is locked again and marshalling
\* the return value or an output raises a Lua error.
callable_call_lock_error_nolock(t) ==
    /\ Runs(t) /\ pc[t] = "relock" /\ TopIs(t, "fwd")
    /\ pc' = [pc EXCEPT ![t] = "error_out"]
    /\ UNCHANGED <<owner, depth, stack, guardRest, buildVars, callVars, moreVars>>

callable_call_lock_error(t) ==
    /\ Runs(t) /\ pc[t] = "relock" /\ TopIs(t, "fwd")
    /\ CanLock(t)
    /\ owner' = LockOwner(t)
    /\ depth' = LockDepth(t)
    /\ pc' = [pc EXCEPT ![t] = "error_out"]
    /\ UNCHANGED <<stack, guardRest, buildVars, callVars, moreVars>>

\* The error raised by callable_call leaves it by longjmp: it arrives in the
\* Lua code that made the call (the program, or the target of the trampoline
\* below, where it is handled or goes on as the target's failure), or Lua
\* panics when the program has no protected call.
luaL_error(t) ==
    /\ Runs(t) /\ pc[t] \in {"error_in", "error_out"} /\ TopIs(t, "fwd")
    /\ \/ LuaErrorCaught(t, Len(stack[t]) - 1)
       \/ Len(stack[t]) = 1 /\ LuaErrorPanic(t)

\* closure_callback, lines 707-752 and 763-775: the target returned (or the
\* resumed coroutine yielded); marshal the results, unlock, return.
closure_callback_return(t) ==
    /\ InTarget(t, "typed")
    /\ UnlockAndReturn(t)

\* closure_callback, lines 753-761 and 763-775: res # 0 after lua_pcall
\* (throws) or after lua_resume (throws, or a status other than LUA_ERRRUN);
\* the failure is written as a GError, then unlock and return.
closure_callback_error(t) ==
    /\ InTarget(t, "typed")
    /\ \E res \in {LUA_ERRRUN, LUA_ERRRUN + 2} :
          IF Closure(Top(t).c).call
          THEN Closure(Top(t).c).throws
          ELSE Closure(Top(t).c).throws \/ res # LUA_ERRRUN
    /\ UnlockAndReturn(t)

\* closure_callback, lines 691 and 701-705: the plan does not throw and the
\* called target raises, or the resumed one ends with LUA_ERRRUN.
closure_callback_raise(t) ==
    /\ InTarget(t, "typed")
    /\ ~Closure(Top(t).c).throws
    /\ lua_error(t)

\* lgi_gclosure_marshal, lines 860-872: the target returned.
lgi_gclosure_marshal_return(t) ==
    /\ InTarget(t, "event")
    /\ UnlockAndReturn(t)

\* lgi_gclosure_marshal, lines 862 and 865-867: the target failed.
lgi_gclosure_marshal_raise(t) ==
    /\ InTarget(t, "event")
    /\ lua_error(t)

NextGuard ==
    \E t \in Threads :
        \/ callable_call_unlock(t)
        \/ ffi_call_return(t)
        \/ callable_call_lock(t)
        \/ callable_call_marshal_error(t)
        \/ callable_call_lock_error(t)
        \/ luaL_error(t)
        \/ \E c \in Closures : closure_invoke(t, c)
        \/ callback_prepare_call_read(t)
        \/ callback_prepare_call_lock(t)
        \/ closure_callback_return(t)
        \/ closure_callback_error(t)
        \/ closure_callback_raise(t)
        \/ lgi_gclosure_marshal_return(t)
        \/ lgi_gclosure_marshal_raise(t)

(***************************************************************************)
(* lgi_callable_create and the callable cache.                             *)
(***************************************************************************)
MaxBuildArgs == 2   \* declared parameters of a description
MaxCreated == 3     \* Callable userdata allocated in one behaviour

Kinds == {"function", "callback", "signal", "vfunc"}
Dirs == {"in", "out", "inout"}
InfoIds == {1, 2}
Addresses == {0, 1}      \* the addr argument; 0 is NULL

\* What the parameters and the return type of a description declare about
\* other parameters: <<holder, what, index>>, holder -1 being the return
\* type and i the parameter i (from 0).  "array_c" is a C array with a length
\* parameter, "array_other" an array of another kind with one.
RefKinds(holder) ==
    IF holder = -1 THEN {"array_c", "array_other"}
                   ELSE {"closure", "destroy", "array_c", "array_other"}
AttrOf(what) == IF what \in {"array_c", "array_other"} THEN "array" ELSE what
RefTriples(n) ==
    {r \in ((-1) .. (n - 1)) \X {"closure", "destroy", "array_c", "array_other"} \X (0 .. (n - 1)) :
        r[2] \in RefKinds(r[1])}
\* Each holder declares each attribute at most once.
Functional(refs) ==
    \A r1, r2 \in refs : (r1[1] = r2[1] /\ AttrOf(r1[2]) = AttrOf(r2[2])) => r1 = r2
\* No, one or two declarations.
RefSets(n) ==
    {{}} \cup {refs \in {{r1, r2} : r1, r2 \in RefTriples(n)} : Functional(refs)}

Desc(itype, name, method, ctor, throws, nargs, dirs, refs) ==
    [itype |-> itype, name |-> name, method |-> method, ctor |-> ctor,
     throws |-> throws, nargs |-> nargs, dirs |-> dirs, refs |-> refs]

\* The descriptions the build is tried on: callbacks with every set of up to
\* two companion declarations, and every kind and flag combination with
\* every direction of every parameter.
MarkFamily ==
    UNION {{Desc("callback", 1, FALSE, FALSE, FALSE, n, [i \in 0 .. (n - 1) |-> "in"], refs) :
              refs \in RefSets(n)} : n \in 0 .. MaxBuildArgs}
FlagFamily ==
    UNION {{Desc(k, 1, m, c, th, n, dirs, {}) :
              m \in (IF k = "function" THEN BOOLEAN ELSE {FALSE}),
              c \in (IF k = "function" THEN BOOLEAN ELSE {FALSE}),
              th \in BOOLEAN,
              dirs \in [0 .. (n - 1) -> Dirs]} : k \in Kinds, n \in 0 .. MaxBuildArgs}
Catalogue == MarkFamily \cup FlagFamily

\* A second description, with another name.
OtherInfo == Desc("function", 2, TRUE, FALSE, TRUE, 0, << >>, {})

\* g_arg_info_get_closure, g_arg_info_get_destroy, g_type_info_get_array_length:
\* the index declared, or -1.
RefIndex(d, holder, attr) ==
    IF \E r \in d.refs : r[1] = holder /\ AttrOf(r[2]) = attr
    THEN (CHOOSE r \in d.refs : r[1] = holder /\ AttrOf(r[2]) = attr)[3]
    ELSE -1
\* g_type_info_get_tag == GI_TYPE_TAG_ARRAY and g_type_info_get_array_type == GI_ARRAY_TYPE_C
IsCArray(d, holder) == \E r \in d.refs : r[1] = holder /\ r[2] = "array_c"

\* The cache key: the info type, ":" and the qualified name.
Key(d) == <<d.itype, d.name>>
Keys == {Key(infos[i]) : i \in InfoIds}

NoPlan == [id |-> 0, info |-> 0, has_self |-> FALSE, throws |-> FALSE, nargs |-> 0,
           address |-> 0, internal |-> << >>, dirs |-> << >>,
           cif |-> [n |-> 0, types |-> << >>]]
NoCall == [info |-> 0, addr |-> 0, key |-> << >>, outcome |-> "none", plan |-> NoPlan]

\* The address g_typelib_symbol resolves the symbol of a function to.
SymbolAddress(d) == 100 + d.name

\* callable_mark_array_length, lines 172-183.
callable_mark_array_length(internal, nargs, d, holder) ==
    LET arg == RefIndex(d, holder, "array")
    IN IF IsCArray(d, holder) /\ arg >= 0 /\ arg < nargs
       THEN [internal EXCEPT ![arg] = TRUE]
       ELSE internal

\* lgi_callable_create, lines 283-288: the closure and destroy indices of
\* parameter argi.
MarkClosureAny(internal, nargs, d, argi) ==
    LET c == RefIndex(d, argi, "closure")
        m1 == IF c >= 0 /\ c < nargs THEN [internal EXCEPT ![c] = TRUE] ELSE internal
        y == RefIndex(d, argi, "destroy")
    IN IF y >= 0 /\ y < nargs THEN [m1 EXCEPT ![y] = TRUE] ELSE m1

MarkClosure(internal, nargs, d, argi) ==
    LET c == RefIndex(d, argi, "closure")
        m1 == IF c > 0 /\ c < nargs THEN [internal EXCEPT ![c] = TRUE] ELSE internal
        y == RefIndex(d, argi, "destroy")
    IN IF y > 0 /\ y < nargs THEN [m1 EXCEPT ![y] = TRUE] ELSE m1

\* lgi_callable_create, lines 272-292: the loop over the parameters from argi.
RECURSIVE MarkParams(_, _, _, _)
MarkParams(internal, nargs, d, argi) ==
    IF argi >= nargs THEN internal
    ELSE MarkParams(
           callable_mark_array_length(MarkClosure(internal, nargs, d, argi), nargs, d, argi),
           nargs, d, argi + 1)

\* lgi_callable_create, lines 252-292: clear the flags, mark for the return
\* type, then for every parameter.
InternalFlags(d) ==
    MarkParams(
        callable_mark_array_length([i \in 0 .. (d.nargs - 1) |-> FALSE], d.nargs, d, -1),
        d.nargs, d, 0)

\* lgi_callable_create, lines 220-250: has_self, throws and the address.
HasSelf(d) ==
    IF d.itype = "function" THEN d.method /\ ~d.ctor
    ELSE d.itype = "signal"
Throws(d) == d.itype = "function" /\ d.throws

\* lgi_callable_create, lines 265-296: the ffi types of the native slots, in
\* order: the receiver, the parameters (get_ffi_type for an in parameter,
\* the pointer type else), the GError.
FfiPointer == <<"pointer", 0>>
CifTypesNoError(d) ==
    (IF HasSelf(d) THEN <<FfiPointer>> ELSE << >>)
    \o [j \in 1 .. d.nargs |-> IF d.dirs[j - 1] = "in" THEN <<"mapped", j - 1>> ELSE FfiPointer]
CifTypes(d) ==
    (IF HasSelf(d) THEN <<FfiPointer>> ELSE << >>)
    \o [j \in 1 .. d.nargs |-> IF d.dirs[j - 1] = "in" THEN <<"mapped", j - 1>> ELSE FfiPointer]
    \o (IF Throws(d) THEN <<FfiPointer>> ELSE << >>)

NewCallable(id, i, addr) ==
    LET d == infos[i]
    IN [id |-> id, info |-> i, has_self |-> HasSelf(d), throws |-> Throws(d),
        nargs |-> d.nargs,
        address |-> IF d.itype = "function" THEN SymbolAddress(d) ELSE addr,
        internal |-> InternalFlags(d),
        dirs |-> d.dirs,
        cif |-> [n |-> (IF HasSelf(d) THEN 1 ELSE 0) + d.nargs + (IF Throws(d) THEN 1 ELSE 0),
                 types |-> CifTypes(d)]]

\* lgi_callable_create, lines 194-209: what the cache holds for the key.
CacheLookupMiss(k) == NoPlan
CacheLookup(k) == cache[k]

\* lgi_callable_create, lines 298-311: the cache after the build; the store
\* comes after ffi_prep_cif succeeded.
CacheStoreAlways(k, p, cifOK) == [cache EXCEPT ![k] = p]
CacheStore(k, p, cifOK) == IF cifOK THEN [cache EXCEPT ![k] = p] ELSE cache

\* lgi_callable_create, lines 186-317.  symOK: g_typelib_symbol finds the
\* symbol; cifOK: ffi_prep_cif returns FFI_OK.
lgi_callable_create(i, addr, symOK, cifOK) ==
    LET d == infos[i]
        k == Key(d)
        hit == CacheLookup(k)
        p == NewCallable(created + 1, i, addr)
    IN IF hit # NoPlan
       THEN /\ last' = [info |-> i, addr |-> addr, key |-> k, outcome |-> "cached", plan |-> hit]
            /\ UNCHANGED <<infos, cache, created, frame>>
       ELSE /\ created < MaxCreated
            /\ created' = created + 1
            /\ IF d.itype = "function" /\ ~symOK
               THEN /\ last' = [info |-> i, addr |-> addr, key |-> k, outcome |-> "error",
                                plan |-> NoPlan]
                    /\ UNCHANGED <<infos, cache, frame>>
               ELSE /\ cache' = CacheStore(k, p, cifOK)
                    /\ last' = [info |-> i, addr |-> addr, key |-> k,
                                outcome |-> IF cifOK THEN "built" ELSE "error",
                                plan |-> IF cifOK THEN p ELSE NoPlan]
                    /\ UNCHANGED <<infos, frame>>

\* callable_call, lines 384-471: ffi_args of a call of the plan p: entry 0
\* for the receiver, entry i + has_self for parameter i (the argument itself
\* when in, a redirection when out or inout, the argument itself again for
\* the caller-allocated outputs ca), entry nargs (has_self included) for the
\* GError.
NoFrame == [plan |-> NoPlan, args |-> << >>]
FfiArgs(p, ca) ==
    LET self == IF p.has_self THEN 1 ELSE 0
        nargs == p.nargs + self
        idx == (IF p.has_self THEN {0} ELSE {})
                  \cup {i + self : i \in 0 .. (p.nargs - 1)}
                  \cup (IF p.throws THEN {nargs} ELSE {})
    IN [a \in idx |->
          IF p.has_self /\ a = 0 THEN <<"args", 0>>
          ELSE IF p.throws /\ a = nargs THEN <<"redirect_err", nargs>>
          ELSE IF p.dirs[a - self] = "in" \/ (a - self) \in ca THEN <<"args", a>>
          ELSE <<"redirect_out", a>>]

callable_call_frame(i) ==
    LET p == cache[Key(infos[i])]
    IN /\ p # NoPlan
       /\ \E ca \in SUBSET {j \in 0 .. (p.nargs - 1) : p.dirs[j] = "out" /\ ~p.internal[j]} :
             frame' = [plan |-> p, args |-> FfiArgs(p, ca)]
       /\ UNCHANGED <<infos, cache, created, last>>

InitBuild ==
    /\ infos \in {[i \in InfoIds |-> IF i = 1 THEN d ELSE OtherInfo] : d \in Catalogue}
    /\ cache = [k \in Keys |-> NoPlan]
    /\ created = 0
    /\ last = NoCall
    /\ frame = NoFrame

NextBuild ==
    \E i \in InfoIds, addr \in Addresses, symOK \in BOOLEAN, cifOK \in BOOLEAN :
        /\ lgi_callable_create(i, addr, symOK, cifOK)
        /\ UNCHANGED <<guardVars, callVars, moreVars>>

\* Builds interleaved with forward calls laying out their ffi_args.
NextFrame ==
    \/ NextBuild
    \/ \E i \in InfoIds :
          /\ callable_call_frame(i)
          /\ UNCHANGED <<guardVars, callVars, moreVars>>

(***************************************************************************)
(* callable_call on the Lua stack.                                         *)
(***************************************************************************)
MaxArgs == 2     \* nargs of the plan called
MaxTemps == 1    \* temporaries lgi_marshal_arg_2c leaves for one argument

\* Values on the Lua stack: <<"callable", 0>>, the j-th passed argument
\* <<"arg", j>>, <<"nil", 0>>, a temporary of parameter i <<"tmp", i>>, the
\* pre-created value of a caller-allocated output <<"ca", i>>, the marshalled
\* output <<"out", i>>, the marshalled return value <<"ret", 0>>, booleans,
\* the error message and code.
Val(tag, i) == <<tag, i>>

\* The parameters a plan can have: internal ones, and non-internal ones of
\* each direction; ca: g_arg_info_is_caller_allocates and a type that
\* lgi_marshal_arg_2c_caller_alloc handles; temps: what lgi_marshal_arg_2c
\* leaves on the stack.
Params ==
    {[internal |-> TRUE, dir |-> "in", ca |-> FALSE, temps |-> 0]}
    \cup {[internal |-> FALSE, dir |-> "in", ca |-> FALSE, temps |-> n] : n \in 0 .. MaxTemps}
    \cup {[internal |-> FALSE, dir |-> "out", ca |-> c, temps |-> 0] : c \in BOOLEAN}
    \cup {[internal |-> FALSE, dir |-> "inout", ca |-> c, temps |-> n] :
            c \in BOOLEAN, n \in 0 .. MaxTemps}
Plans ==
    UNION {[has_self : BOOLEAN, throws : BOOLEAN, retVoid : BOOLEAN, nargs : {n},
            params : [1 .. n -> Params]] : n \in 0 .. MaxArgs}

\* The value at a stack index (1 is the bottom, -1 the top); none outside.
StackAt(s, idx) ==
    LET at == IF idx > 0 THEN idx ELSE Len(s) + idx + 1
    IN IF at >= 1 /\ at <= Len(s) THEN s[at] ELSE Val("none", 0)

\* lua_settop, lua_pop, lua_insert and the values a C function returns.
lua_settop_keep(s, n) == s
lua_settop(s, n) ==
    IF n <= Len(s) THEN SubSeq(s, 1, n)
    ELSE s \o [j \in 1 .. (n - Len(s)) |-> Val("nil", 0)]
lua_pop(s, n) == SubSeq(s, 1, Len(s) - n)
lua_insert_top(s, idx) == s
lua_insert(s, idx) ==
    LET at == IF idx > 0 THEN idx ELSE Len(s) + idx + 1
    IN IF idx = 0 \/ at < 1 \/ at >= Len(s) THEN s
       ELSE SubSeq(s, 1, at - 1) \o <<s[Len(s)]>> \o SubSeq(s, at, Len(s) - 1)
Returned(s, n) == SubSeq(s, Len(s) - n + 1, Len(s))

\* callable_call, lines 435-464: the input pass from parameter i on;
\* st = [stack, lua_argi, nret, caller_allocated, reads].
RECURSIVE InputPass(_, _, _)
InputPass(p, st, i) ==
    IF i > p.nargs THEN st
    ELSE LET prm == p.params[i]
         IN IF prm.internal THEN InputPass(p, st, i + 1)
            ELSE IF prm.dir # "out"
            THEN InputPass(p,
                     [st EXCEPT !.stack = @ \o [j \in 1 .. prm.temps |-> Val("tmp", i)],
                                !.reads = Append(@, <<i, st.lua_argi,
                                                      StackAt(st.stack, st.lua_argi)>>),
                                !.lua_argi = @ + 1,
                                !.nret = @ + prm.temps],
                     i + 1)
            ELSE IF prm.ca
            THEN InputPass(p,
                     [st EXCEPT !.stack = lua_insert(Append(@, Val("ca", i)), -st.nret - 1),
                                !.caller_allocated = @ + 1],
                     i + 1)
            ELSE InputPass(p, st, i + 1)

\* callable_call, lines 516-538: the output pass from parameter i on;
\* st = [stack, nret, caller_allocated, pos].
RECURSIVE OutputPass(_, _, _)
OutputPass(p, st, i) ==
    IF i > p.nargs THEN st
    ELSE LET prm == p.params[i]
         IN IF prm.internal \/ prm.dir = "in" THEN OutputPass(p, st, i + 1)
            ELSE IF prm.ca
            THEN OutputPass(p,
                     [st EXCEPT !.pos = Append(@, <<i, -st.caller_allocated - st.nret,
                                                  StackAt(st.stack, -st.caller_allocated - st.nret)>>),
                                !.caller_allocated = @ - 1,
                                !.nret = @ + 1],
                     i + 1)
            ELSE OutputPass(p,
                     [st EXCEPT !.stack = lua_insert(Append(@, Val("out", i)),
                                                     -st.caller_allocated - 1),
                                !.nret = @ + 1],
                     i + 1)

\* callable_call, lines 379-478: normalise the stack, marshal the input.
callable_call_marshal ==
    /\ cpc = "entry"
    /\ LET s0 == lua_settop(lstack, (IF plan.has_self THEN 1 ELSE 0) + plan.nargs + 1)
           st == InputPass(plan,
                     [stack |-> s0,
                      lua_argi |-> IF plan.has_self THEN 3 ELSE 2,
                      nret |-> 0, caller_allocated |-> 0,
                      reads |-> IF plan.has_self THEN << <<0, 2, StackAt(s0, 2)>> >> ELSE << >>],
                     1)
       IN /\ lstack' = st.stack
          /\ argReads' = st.reads
          /\ lua_argi' = st.lua_argi
          /\ nret' = st.nret
          /\ caller_allocated' = st.caller_allocated
    /\ cpc' = "native"
    /\ UNCHANGED <<plan, err, results, posLog>>

\* callable_call, line 481: the native function runs; one that throws may
\* set the GError.
ffi_call(e) ==
    /\ cpc = "native"
    /\ e => plan.throws
    /\ err' = e
    /\ cpc' = "back"
    /\ UNCHANGED <<plan, lstack, lua_argi, nret, caller_allocated, results, posLog, argReads>>

\* callable_call, lines 484-551: pop the temporaries, marshal the return
\* value, then the error or the output; g_assert aborts the process.
callable_call_results ==
    /\ cpc = "back"
    /\ LET s1 == lua_pop(lstack, nret)
           s2 == IF plan.retVoid THEN s1
                 ELSE lua_insert(Append(s1, Val("ret", 0)), -caller_allocated - 1)
           n2 == IF plan.retVoid THEN 0 ELSE 1
       IN IF err
          THEN LET s3 == IF n2 = 0 THEN Append(s2, Val("false", 0)) ELSE s2
                   n3 == IF n2 = 0 THEN 1 ELSE n2
                   s4 == s3 \o <<Val("msg", 0), Val("code", 0)>>
               IN /\ lstack' = s4
                  /\ nret' = n3
                  /\ results' = Returned(s4, n3 + 2)
                  /\ cpc' = "returned"
                  /\ UNCHANGED <<caller_allocated, posLog>>
          ELSE LET st == OutputPass(plan,
                             [stack |-> s2, nret |-> n2,
                              caller_allocated |-> caller_allocated, pos |-> << >>], 1)
                   true == st.nret = 0 /\ plan.throws
                   s5 == IF true THEN Append(st.stack, Val("true", 0)) ELSE st.stack
                   n5 == IF true THEN 1 ELSE st.nret
               IN /\ lstack' = s5
                  /\ nret' = n5
                  /\ caller_allocated' = st.caller_allocated
                  /\ posLog' = st.pos
                  /\ IF st.caller_allocated = 0
                     THEN cpc' = "returned" /\ results' = Returned(s5, n5)
                     ELSE cpc' = "aborted" /\ results' = << >>
    /\ UNCHANGED <<plan, lua_argi, err, argReads>>

\* A call of a plan with any number of arguments up to one more than the
\* stack is normalised to.
InitCall ==
    /\ plan \in Plans
    /\ \E n \in 0 .. ((IF plan.has_self THEN 1 ELSE 0) + plan.nargs + 1) :
           lstack = <<Val("callable", 0)>> \o [j \in 1 .. n |-> Val("arg", j)]
    /\ cpc = "entry"
    /\ lua_argi = 0
    /\ nret = 0
    /\ caller_allocated = 0
    /\ err = FALSE
    /\ results = << >>
    /\ posLog = << >>
    /\ argReads = << >>

NextCall ==
    \/ callable_call_marshal /\ UNCHANGED <<guardVars, buildVars, moreVars>>
    \/ \E e \in BOOLEAN : ffi_call(e) /\ UNCHANGED <<guardVars, buildVars, moreVars>>
    \/ callable_call_results /\ UNCHANGED <<guardVars, buildVars, moreVars>>

(***************************************************************************)
(* The life of a libffi closure (thunk): closure_callback lines 763-776,   *)
(* lgi_closure_destroy, and the guard whose collection calls it.           *)
(***************************************************************************)
MaxNest == 3          \* live closure_callback frames, nested
MaxInvocations == 4   \* invocations of thunks in one behaviour

Thunks == {1, 2}

\* Native code calls the thunk x: closure_callback is entered; the target
\* runs Lua code, which may call native code that calls a thunk again.  The
\* native side calls no thunk whose memory was freed.
thunk_invoke(x) ==
    /\ Len(thunkStack) < MaxNest
    /\ invocations < MaxInvocations
    /\ destroyed[x] = 0
    /\ thunkStack' = Append(thunkStack, x)
    /\ invocations' = invocations + 1
    /\ UNCHANGED <<autodestroy, guards, destroyed>>

\* closure_callback, lines 763-776: with autodestroy a guard for
\* lgi_closure_destroy is created on the Lua stack (line 768) and dropped
\* from it by lua_settop (line 772); the frame returns.
GuardsAfter(x) == IF autodestroy[x] THEN [guards EXCEPT ![x] = @ + 1] ELSE guards

closure_callback_exit ==
    /\ Len(thunkStack) > 0
    /\ guards' = GuardsAfter(thunkStack[Len(thunkStack)])
    /\ thunkStack' = SubSeq(thunkStack, 1, Len(thunkStack) - 1)
    /\ UNCHANGED <<autodestroy, destroyed, invocations>>

\* closure_callback, lines 691 and 705: the target raises and the frame is
\* left by longjmp, down to frame k; line 768 does not run.
closure_callback_unwind(k) ==
    /\ k < Len(thunkStack)
    /\ thunkStack' = SubSeq(thunkStack, 1, k)
    /\ UNCHANGED <<autodestroy, guards, destroyed, invocations>>

\* The Lua collector, running in any Lua code, collects a dropped guard of
\* x: lgi_closure_destroy (lines 779-787) unrefs and frees the closure.
lgi_closure_destroy(x) ==
    /\ guards[x] > 0
    /\ guards' = [guards EXCEPT ![x] = @ - 1]
    /\ destroyed' = [destroyed EXCEPT ![x] = @ + 1]
    /\ UNCHANGED <<autodestroy, thunkStack, invocations>>

InitDestroy ==
    /\ autodestroy \in [Thunks -> BOOLEAN]
    /\ thunkStack = << >>
    /\ guards = [x \in Thunks |-> 0]
    /\ destroyed = [x \in Thunks |-> 0]
    /\ invocations = 0

IdleDestroy ==
    /\ autodestroy = << >>
    /\ thunkStack = << >>
    /\ guards = << >>
    /\ destroyed = << >>
    /\ invocations = 0

NextDestroy ==
    \/ \E x \in Thunks : thunk_invoke(x) /\ UNCHANGED <<guardVars, buildVars, callVars, trampVars, switchVars>>
    \/ closure_callback_exit /\ UNCHANGED <<guardVars, buildVars, callVars, trampVars, switchVars>>
    \/ \E k \in 0 .. MaxNest : closure_callback_unwind(k) /\ UNCHANGED <<guardVars, buildVars, callVars, trampVars, switchVars>>
    \/ \E x \in Thunks : lgi_closure_destroy(x) /\ UNCHANGED <<guardVars, buildVars, callVars, trampVars, switchVars>>

(***************************************************************************)
(* closure_callback and lgi_gclosure_marshal on the Lua stack.             *)
(***************************************************************************)
MaxTrampArgs == 2    \* nargs of the plan of a typed closure
MaxResults == 2      \* values a target returns or yields
MaxJunk == 1         \* values on the stack of L when the trampoline is entered
MaxTrampCalls == 2   \* invocations of the trampoline in one behaviour
MaxValues == 1       \* n_param_values of an event

\* Parameters of a typed closure's plan; temps: what lgi_marshal_arg_2c
\* leaves on the stack when it marshals the result (to_pop).
TParams ==
    {[internal |-> TRUE, dir |-> "in", temps |-> 0],
     [internal |-> FALSE, dir |-> "in", temps |-> 0],
     [internal |-> FALSE, dir |-> "out", temps |-> 0]}
    \cup {[internal |-> FALSE, dir |-> "inout", temps |-> n] : n \in 0 .. MaxTemps}
TPlans ==
    UNION {[has_self : BOOLEAN, throws : BOOLEAN, retVoid : BOOLEAN, nargs : {n},
            params : [1 .. n -> TParams]] : n \in 0 .. MaxTrampArgs}
NoTPlan == [has_self |-> FALSE, throws |-> FALSE, retVoid |-> TRUE, nargs |-> 0,
            params |-> << >>]
NoClosure == [kind |-> "none", plan |-> NoTPlan, isThread |-> FALSE, call |-> FALSE,
              creator |-> NoCtx, target |-> NoCtx]

Junk(n) == [j \in 1 .. n |-> Val("junk", j)]
Values(k) == [j \in 1 .. k |-> Val("res", j)]

\* lua_call (L, nargs, nresults): the function and its nargs arguments are
\* replaced by the results, adjusted to nresults unless LUA_MULTRET (-1).
lua_call_multret(s, nargs, nresults, k) == SubSeq(s, 1, Len(s) - nargs - 1) \o Values(k)
lua_call(s, nargs, nresults, k) ==
    SubSeq(s, 1, Len(s) - nargs - 1) \o
        (IF nresults < 0 THEN Values(k)
         ELSE [j \in 1 .. nresults |-> IF j <= k THEN Val("res", j) ELSE Val("nil", 0)])
\* lua_resume (L, nargs) returning 0 or LUA_YIELD: the stack holds the values
\* returned or passed to lua_yield.
lua_resume(s, nargs, k) == Values(k)

\* lgi_closure_create, lines 791-831, and callback_create, lines 562-584, in
\* context creator: target_ref is LUA_NOREF when the target is a thread.
lgi_closure_create(p, isThread, creator) ==
    /\ tpc = "none"
    /\ tcl' = [kind |-> "typed", plan |-> p, isThread |-> isThread, call |-> ~isThread,
               creator |-> creator, target |-> IF isThread THEN CoCtx ELSE NoCtx]
    /\ tthread' = creator
    /\ tpc' = "created"
    /\ UNCHANGED <<tentry, tnext, tL, tcall, tstack, stacktop, tnpos, tres, tk, invoked, writes>>

\* lgi_gclosure_create, lines 876-904: only a function, table or userdata
\* is accepted as target.
lgi_gclosure_create(isThread, creator) ==
    /\ tpc = "none"
    /\ IF isThread
       THEN /\ tpc' = "rejected"
            /\ UNCHANGED <<tcl, tthread>>
       ELSE /\ tcl' = [kind |-> "event", plan |-> NoTPlan, isThread |-> FALSE, call |-> TRUE,
                       creator |-> creator, target |-> NoCtx]
            /\ tthread' = creator
            /\ tpc' = "created"
    /\ UNCHANGED <<tentry, tnext, tL, tcall, tstack, stacktop, tnpos, tres, tk, invoked, writes>>

\* callback_prepare_call, lines 592-620: the stack of L and the contexts
\* after it; junk values lie on the stack of the context behind thread_ref,
\* whose lua_status is st; entry is the stack of L before the call.
Prepared(junk, st) ==
    IF tcl.call
    THEN IF st # 0
         THEN [L |-> tnext, stack |-> <<Val("target", 0)>>, thread |-> tnext, next |-> tnext + 1,
               entry |-> << >>]
         ELSE [L |-> tthread, stack |-> Append(Junk(junk), Val("target", 0)),
               thread |-> tthread, next |-> tnext, entry |-> Junk(junk)]
    ELSE [L |-> tthread, stack |-> Append(Junk(junk), Val("thread", tthread)),
          thread |-> tthread, next |-> tnext, entry |-> Junk(junk)]

\* closure_callback, lines 673-683: the input arguments pushed from
\* parameter i on.
RECURSIVE TrampInputs(_, _)
TrampInputs(p, i) ==
    IF i > p.nargs THEN << >>
    ELSE (IF ~p.params[i].internal /\ p.params[i].dir # "out"
          THEN <<Val("in", i)>> ELSE << >>) \o TrampInputs(p, i + 1)

\* closure_callback, lines 642-683.
closure_callback_enter(junk, st) ==
    /\ tpc \in {"created", "done"} /\ tcl.kind = "typed"
    /\ Len(invoked) < MaxTrampCalls
    /\ st \in StatusOf(tthread)
    /\ LET pr == Prepared(junk, st)
           ins == (IF tcl.plan.has_self THEN <<Val("self", 0)>> ELSE << >>)
                     \o TrampInputs(tcl.plan, 1)
       IN /\ tL' = pr.L
          /\ tentry' = pr.entry
          /\ tthread' = pr.thread
          /\ tnext' = pr.next
          /\ tcall' = tcl.call
          /\ stacktop' = Len(pr.stack) - (IF tcl.call THEN 1 ELSE 0)
          /\ tstack' = pr.stack \o ins
          /\ tnpos' = Len(ins)
    /\ tpc' = "invoke"
    /\ tres' = 0
    /\ tk' = 0
    /\ writes' = << >>
    /\ UNCHANGED <<tcl, invoked>>

\* closure_callback, lines 685-700: the target, called or resumed, returns
\* (or yields) k values.
closure_target_returns(k) ==
    /\ tpc = "invoke" /\ tcl.kind = "typed"
    /\ tstack' = IF tcall THEN lua_call(tstack, tnpos, -1, k) ELSE lua_resume(tstack, tnpos, k)
    /\ invoked' = Append(invoked, [mode |-> IF tcall THEN "call" ELSE "resume", ctx |-> tL])
    /\ tres' = 0
    /\ tk' = k
    /\ tpc' = "after"
    /\ UNCHANGED <<tentry, tcl, tthread, tnext, tL, tcall, stacktop, tnpos, writes>>

\* closure_callback, lines 685-706: the target fails with status; lua_call
\* raises, lua_pcall and lua_resume return the status with the message on
\* top, and line 705 raises again.
Raises(status) ==
    IF tcall THEN ~tcl.plan.throws
    ELSE status = LUA_ERRRUN /\ ~tcl.plan.throws

closure_target_fails(status) ==
    /\ tpc = "invoke" /\ tcl.kind = "typed"
    /\ invoked' = Append(invoked, [mode |-> IF tcall THEN "call" ELSE "resume", ctx |-> tL])
    /\ tk' = 0
    /\ IF Raises(status)
       THEN /\ tpc' = "raised"
            /\ UNCHANGED <<tstack, tres>>
       ELSE /\ tpc' = "after"
            /\ tres' = status
            /\ tstack' = Append(IF tcall THEN SubSeq(tstack, 1, Len(tstack) - tnpos - 1)
                                         ELSE tstack, Val("errmsg", 0))
    /\ UNCHANGED <<tentry, tcl, tthread, tnext, tL, tcall, stacktop, tnpos, writes>>

\* closure_callback, lines 731-751: the output arguments from parameter i
\* on; st = [stack, npos, writes].
RECURSIVE TrampOutputs(_, _, _)
TrampOutputs(p, st, i) ==
    IF i > p.nargs THEN st
    ELSE LET prm == p.params[i]
         IN IF prm.internal \/ prm.dir = "in" THEN TrampOutputs(p, st, i + 1)
            ELSE TrampOutputs(p,
                     [stack |-> lua_pop(st.stack \o [j \in 1 .. prm.temps |-> Val("tmp", i)],
                                        prm.temps),
                      npos |-> st.npos + 1,
                      writes |-> Append(st.writes,
                                   <<"arg", i - 1 + (IF p.has_self THEN 1 ELSE 0),
                                     StackAt(st.stack, st.npos)>>)],
                     i + 1)

\* closure_callback, lines 707-776, without the guard of line 768.
closure_callback_finish ==
    /\ tpc = "after" /\ tcl.kind = "typed"
    /\ LET p == tcl.plan
           npos == stacktop + 1
       IN IF tres = 0
          THEN LET w0 == IF p.retVoid THEN << >> ELSE << <<"ret", 0, StackAt(tstack, npos)>> >>
                   n0 == IF p.retVoid THEN npos ELSE npos + 1
                   st == TrampOutputs(p, [stack |-> tstack, npos |-> n0, writes |-> w0], 1)
               IN /\ writes' = st.writes
                  /\ tstack' = lua_settop(st.stack, stacktop)
          ELSE /\ writes' = << <<"err", (IF p.has_self THEN 1 ELSE 0) + p.nargs,
                                 StackAt(tstack, -1)>> >>
               /\ tstack' = lua_settop(lua_pop(tstack, 1), stacktop)
    /\ tpc' = "done"
    /\ UNCHANGED <<tentry, tcl, tthread, tnext, tL, tcall, stacktop, tnpos, tres, tk, invoked>>

\* lgi_gclosure_marshal, lines 849-858: n values are pushed.
lgi_gclosure_marshal_enter(n, junk, st) ==
    /\ tpc \in {"created", "done"} /\ tcl.kind = "event"
    /\ Len(invoked) < MaxTrampCalls
    /\ st \in StatusOf(tthread)
    /\ LET pr == Prepared(junk, st)
       IN /\ tL' = pr.L
          /\ tentry' = pr.entry
          /\ tthread' = pr.thread
          /\ tnext' = pr.next
          /\ tcall' = tcl.call
          /\ tstack' = pr.stack \o [j \in 1 .. n |-> Val("in", j)]
    /\ tnpos' = n
    /\ tpc' = "invoke"
    /\ tres' = 0
    /\ tk' = 0
    /\ writes' = << >>
    /\ UNCHANGED <<tcl, stacktop, invoked>>

\* lgi_gclosure_marshal, lines 860-868: the target returns or yields k values.
gclosure_target_returns(k) ==
    /\ tpc = "invoke" /\ tcl.kind = "event"
    /\ tstack' = IF tcall THEN lua_call(tstack, tnpos, 1, k) ELSE lua_resume(tstack, tnpos, k)
    /\ invoked' = Append(invoked, [mode |-> IF tcall THEN "call" ELSE "resume", ctx |-> tL])
    /\ tk' = k
    /\ tpc' = "after"
    /\ UNCHANGED <<tentry, tcl, tthread, tnext, tL, tcall, stacktop, tnpos, tres, writes>>

\* lgi_gclosure_marshal, lines 862 and 865-867: the target fails; the error
\* is raised.
gclosure_target_fails ==
    /\ tpc = "invoke" /\ tcl.kind = "event"
    /\ invoked' = Append(invoked, [mode |-> IF tcall THEN "call" ELSE "resume", ctx |-> tL])
    /\ tpc' = "raised"
    /\ UNCHANGED <<tentry, tcl, tthread, tnext, tL, tcall, tstack, stacktop, tnpos, tres, tk, writes>>

\* lgi_gclosure_marshal, lines 869-872: the value on top goes to return_value.
lgi_gclosure_marshal_finish ==
    /\ tpc = "after" /\ tcl.kind = "event"
    /\ writes' = << <<"ret", 0, StackAt(tstack, -1)>> >>
    /\ tpc' = "done"
    /\ UNCHANGED <<tentry, tcl, tthread, tnext, tL, tcall, tstack, stacktop, tnpos, tres, tk, invoked>>

InitTramp ==
    /\ tcl = NoClosure
    /\ tpc = "none"
    /\ tthread = NoCtx
    /\ tnext = CoCtx + 1
    /\ tL = NoCtx
    /\ tcall = FALSE
    /\ tstack = << >>
    /\ tentry = << >>
    /\ stacktop = 0
    /\ tnpos = 0
    /\ tres = 0
    /\ tk = 0
    /\ invoked = << >>
    /\ writes = << >>

IdleTramp == InitTramp

NextTramp ==
    \/ \E p \in TPlans, th \in BOOLEAN, cr \in {MainCtx, CoCtx} :
          lgi_closure_create(p, th, cr) /\ UNCHANGED <<guardVars, buildVars, callVars, destroyVars, switchVars>>
    \/ \E junk \in 0 .. MaxJunk, st \in {0, LUA_YIELD} :
          closure_callback_enter(junk, st) /\ UNCHANGED <<guardVars, buildVars, callVars, destroyVars, switchVars>>
    \/ \E k \in 0 .. MaxResults :
          closure_target_returns(k) /\ UNCHANGED <<guardVars, buildVars, callVars, destroyVars, switchVars>>
    \/ \E status \in {LUA_ERRRUN, LUA_ERRRUN + 2} :
          closure_target_fails(status) /\ UNCHANGED <<guardVars, buildVars, callVars, destroyVars, switchVars>>
    \/ closure_callback_finish /\ UNCHANGED <<guardVars, buildVars, callVars, destroyVars, switchVars>>

NextEvent ==
    \/ \E th \in BOOLEAN, cr \in {MainCtx, CoCtx} :
          lgi_gclosure_create(th, cr) /\ UNCHANGED <<guardVars, buildVars, callVars, destroyVars, switchVars>>
    \/ \E n \in 0 .. MaxValues, junk \in 0 .. MaxJunk, st \in {0, LUA_YIELD} :
          lgi_gclosure_marshal_enter(n, junk, st)
              /\ UNCHANGED <<guardVars, buildVars, callVars, destroyVars, switchVars>>
    \/ \E k \in 0 .. MaxResults :
          gclosure_target_returns(k) /\ UNCHANGED <<guardVars, buildVars, callVars, destroyVars, switchVars>>
    \/ gclosure_target_fails /\ UNCHANGED <<guardVars, buildVars, callVars, destroyVars, switchVars>>
    \/ lgi_gclosure_marshal_finish /\ UNCHANGED <<guardVars, buildVars, callVars, destroyVars, switchVars>>

(***************************************************************************)
(* callback_prepare_call on the contexts' stacks and the registry: one     *)
(* typed closure with a callable target, invoked by two OS threads.        *)
(***************************************************************************)
MaxSwitchCalls == 3   \* invocations of the trampoline in one behaviour

Contexts == MainCtx .. (CoCtx + MaxSwitchCalls)
RefIds == 1 .. 3
NoRef == <<"free", 0>>

\* luaL_ref: the reference the value gets, the lowest free one.
luaL_ref(reg) ==
    CHOOSE r \in RefIds : reg[r] = NoRef /\ \A q \in RefIds : reg[q] = NoRef => r <= q

\* callback_prepare_call, line 595: L = callback->L, read before the lock.
callback_prepare_call_L(t) ==
    /\ ~sCrashed /\ spc[t] = "native"
    /\ sCalls < MaxSwitchCalls
    /\ sCalls' = sCalls + 1
    /\ sL' = [sL EXCEPT ![t] = callback.L]
    /\ spc' = [spc EXCEPT ![t] = "read"]
    /\ UNCHANGED <<callback, registry, ctxStack, ctxStatus, ctxEntry, sTop, sOwner, sNext,
                   sCrashed, ran>>

\* callback_prepare_call, lines 596-619, and closure_callback, line 652.
\* lua_pop at line 617 on an empty stack is undefined: the process crashes
\* or goes on (ub).
callback_prepare_call(t, ub) ==
    /\ ~sCrashed /\ spc[t] = "read"
    /\ sOwner = NoThread
    /\ LET L0 == sL[t]
           th == registry[callback.thread_ref]
           s1 == [ctxStack EXCEPT ![L0] = Append(@, th)]
           L1 == th[2]
           switch == ctxStatus[L1] # 0
           s2 == IF switch THEN [s1 EXCEPT ![L1] = Append(@, Val("thread", sNext))] ELSE s1
           reg1 == IF switch THEN [registry EXCEPT ![callback.thread_ref] = NoRef]
                   ELSE registry
           r == luaL_ref(reg1)
           reg2 == IF switch THEN [reg1 EXCEPT ![r] = StackAt(s2[callback.L], -1)] ELSE reg1
           s3 == IF switch THEN [s2 EXCEPT ![callback.L] = lua_pop(@, 1)] ELSE s2
           underflow == Len(s3[callback.L]) = 0
           s4 == IF underflow THEN s3 ELSE [s3 EXCEPT ![callback.L] = lua_pop(@, 1)]
           L == IF switch THEN sNext ELSE L1
           s5 == [s4 EXCEPT ![L] = Append(@, Val("target", 0))]
       IN /\ underflow \/ ub = "goes on"
          /\ IF underflow /\ ub = "crash"
             THEN /\ sCrashed' = TRUE
                  /\ UNCHANGED <<callback, registry, ctxStack, spc, sL, sTop, sOwner, sNext, ran>>
             ELSE /\ callback' = [callback EXCEPT !.L = L,
                                                  !.thread_ref = IF switch THEN r ELSE @]
                  /\ registry' = reg2
                  /\ ctxStack' = s5
                  /\ sNext' = IF switch THEN sNext + 1 ELSE sNext
                  /\ sL' = [sL EXCEPT ![t] = L]
                  /\ sTop' = [sTop EXCEPT ![t] = Len(s5[L]) - 1]
                  /\ sOwner' = t
                  /\ spc' = [spc EXCEPT ![t] = "target"]
                  /\ ran' = Append(ran, [ctx |-> L, status |-> ctxStatus[L],
                                         switched |-> switch])
                  /\ UNCHANGED sCrashed
    /\ UNCHANGED <<ctxStatus, ctxEntry, sCalls>>

\* closure_callback, lines 654-775: the target is called and returns, the
\* stack of L is set back to stacktop and the mutex is unlocked.
closure_callback_settop(t) ==
    /\ ~sCrashed /\ spc[t] = "target"
    /\ ctxStack' = [ctxStack EXCEPT ![sL[t]] = lua_settop(@, sTop[t])]
    /\ sOwner' = NoThread
    /\ spc' = [spc EXCEPT ![t] = "native"]
    /\ UNCHANGED <<callback, registry, ctxStatus, ctxEntry, sL, sTop, sNext, sCalls,
                   sCrashed, ran>>

\* The Lua program, while no trampoline runs: the coroutine yields, or is
\* resumed and runs on.
lua_yield(st) ==
    /\ ~sCrashed /\ sOwner = NoThread
    /\ ctxStatus[CoCtx] # st
    /\ ctxStatus' = [ctxStatus EXCEPT ![CoCtx] = st]
    /\ UNCHANGED <<callback, registry, ctxStack, ctxEntry, spc, sL, sTop, sOwner, sNext,
                   sCalls, sCrashed, ran>>

\* callback_create, lines 562-584, run in the main state or in the
\* coroutine, with junk values on the stacks of both.
InitSwitch ==
    /\ \E cr \in {MainCtx, CoCtx} :
          /\ callback = [L |-> cr, thread_ref |-> 2, target_ref |-> 1]
          /\ registry = [r \in RefIds |->
                            IF r = 1 THEN Val("target", 0)
                            ELSE IF r = 2 THEN Val("thread", cr) ELSE NoRef]
    /\ \E j \in 0 .. MaxJunk :
          ctxStack = [c \in Contexts |-> IF c <= CoCtx THEN Junk(j) ELSE << >>]
    /\ ctxEntry = ctxStack
    /\ ctxStatus = [c \in Contexts |-> 0]
    /\ spc = [t \in Threads |-> "native"]
    /\ sL = [t \in Threads |-> NoCtx]
    /\ sTop = [t \in Threads |-> 0]
    /\ sOwner = NoThread
    /\ sNext = CoCtx + 1
    /\ sCalls = 0
    /\ sCrashed = FALSE
    /\ ran = << >>

IdleSwitch ==
    /\ callback = << >>
    /\ registry = << >>
    /\ ctxStack = << >>
    /\ ctxStatus = << >>
    /\ ctxEntry = << >>
    /\ spc = << >>
    /\ sL = << >>
    /\ sTop = << >>
    /\ sOwner = NoThread
    /\ sNext = 0
    /\ sCalls = 0
    /\ sCrashed = FALSE
    /\ ran = << >>

NextSwitch ==
    \/ \E t \in Threads :
          callback_prepare_call_L(t) /\ UNCHANGED <<guardVars, buildVars, callVars, destroyVars, trampVars>>
    \/ \E t \in Threads, ub \in {"goes on", "crash"} :
          callback_prepare_call(t, ub) /\ UNCHANGED <<guardVars, buildVars, callVars, destroyVars, trampVars>>
    \/ \E t \in Threads :
          closure_callback_settop(t) /\ UNCHANGED <<guardVars, buildVars, callVars, destroyVars, trampVars>>
    \/ \E st \in {0, LUA_YIELD} :
          lua_yield(st) /\ UNCHANGED <<guardVars, buildVars, callVars, destroyVars, trampVars>>

(***************************************************************************)
(* Specifications of the call mutex.                                       *)
(***************************************************************************)
IdleBuild ==
    /\ infos = << >>
    /\ cache = << >>
    /\ created = 0
    /\ last = NoCall
    /\ frame = NoFrame

IdleCall ==
    /\ plan = [op |-> "none"]
    /\ cpc = "idle"
    /\ lstack = << >>
    /\ lua_argi = 0
    /\ nret = 0
    /\ caller_allocated = 0
    /\ err = FALSE
    /\ results = << >>
    /\ posLog = << >>
    /\ argReads = << >>

IdleMore == IdleDestroy /\ IdleTramp /\ IdleSwitch
Init == InitGuard /\ IdleBuild /\ IdleCall /\ IdleMore
Next == NextGuard
Spec == Init /\ [][Next]_vars

\* Every thread that can take a step eventually takes one (the OS schedules
\* it; native functions and targets return), and a thread waiting for the
\* mutex gets it if the mutex is free again and again.
ThreadStep(t) ==
    \/ callable_call_unlock(t)
    \/ ffi_call_return(t)
    \/ callable_call_lock(t)
    \/ callable_call_marshal_error(t)
    \/ callable_call_lock_error(t)
    \/ luaL_error(t)
    \/ \E c \in Closures : closure_invoke(t, c)
    \/ callback_prepare_call_read(t)
    \/ callback_prepare_call_lock(t)
    \/ closure_callback_return(t)
    \/ closure_callback_error(t)
    \/ closure_callback_raise(t)
    \/ lgi_gclosure_marshal_return(t)
    \/ lgi_gclosure_marshal_raise(t)

Fairness ==
    \A t \in Threads :
        /\ WF_vars(ThreadStep(t))
        /\ SF_vars(callable_call_lock(t) \/ callable_call_lock_error(t))
        /\ SF_vars(callback_prepare_call_lock(t))

FairSpec == Init /\ [][Next]_vars /\ Fairness

InitSolo == InitGuardSolo /\ IdleBuild /\ IdleCall /\ IdleMore
SpecSolo == InitSolo /\ [][Next]_vars /\ Fairness

\* The threads are idle while descriptions are built.
IdleGuard ==
    /\ owner = "A"
    /\ depth = 1
    /\ pc = [t \in Threads |-> Base(t)]
    /\ stack = [t \in Threads |-> << >>]
    /\ cbL = [c \in Closures |-> Closure(c).home]
    /\ cbThread = [c \in Closures |-> Closure(c).home]
    /\ nextCtx = CoCtx + 1
    /\ calls = 0
    /\ halted = FALSE
    /\ active = {}

InitCallOnly == IdleGuard /\ IdleBuild /\ InitCall /\ IdleMore
SpecCall == InitCallOnly /\ [][NextCall]_vars

InitBuildOnly == IdleGuard /\ InitBuild /\ IdleCall /\ IdleMore
SpecBuild == InitBuildOnly /\ [][NextBuild]_vars
SpecFrame == InitBuildOnly /\ [][NextFrame]_vars

InitDestroyOnly == IdleGuard /\ IdleBuild /\ IdleCall /\ InitDestroy /\ IdleTramp /\ IdleSwitch
SpecDestroy == InitDestroyOnly /\ [][NextDestroy]_vars

InitTrampOnly == IdleGuard /\ IdleBuild /\ IdleCall /\ IdleDestroy /\ InitTramp /\ IdleSwitch
SpecTramp == InitTrampOnly /\ [][NextTramp]_vars
SpecEvent == InitTrampOnly /\ [][NextEvent]_vars

InitSwitchOnly == IdleGuard /\ IdleBuild /\ IdleCall /\ IdleDestroy /\ IdleTramp /\ InitSwitch
SpecSwitch == InitSwitchOnly /\ [][NextSwitch]_vars

(***************************************************************************)
(* Claims about the call mutex.                                            *)
(***************************************************************************)

\* The thread executes the native function callable_call called, or waits at
\* the lock after it: between line 478 and line 484.
InForwardNative(t) == TopIs(t, "fwd") /\ pc[t] \in {"native", "relock"}

C2_TrampolineReleasesOnce ==
    [][\A t \in Threads :
          (TopIs(t, "tramp") /\ pc[t] = "lua" /\ Len(stack'[t]) < Len(stack[t]))
             => (IF owner' = t THEN depth' ELSE 0) = Top(t).hold0]_vars

\* The thread executes Lua code or reads or writes the Lua runtime or a
\* Callback: the target and the marshalling around it (pc = "lua"), or the
\* read of Callback.L at line 595 (pc = "prepare_read").
Touches(t) == t \in active /\ pc[t] \in {"lua", "prepare_read"}

\* C3: mutual exclusion: every thread that executes Lua code or touches the
\* Lua runtime or trampoline storage owns the mutex, so at most one does; a
\* thread inside a forward native call does not.
C3_MutualExclusion ==
    /\ \A t \in Threads : Touches(t) => owner = t
    /\ \A t, u \in Threads : (Touches(t) /\ Touches(u)) => t = u
    /\ \A t \in Threads : InForwardNative(t) => ~Touches(t)

\* The hold counts along a thread's frames nest: a trampoline entered from a
\* forward call starts one below that call's entry count, a forward call made
\* by a target one above the trampoline's, and the thread's present count is
\* the top frame's entry count plus the lock or minus the unlock it has made.
NestedCounts(t) ==
    /\ \A i \in 2 .. Len(stack[t]) :
          /\ stack[t][i].kind # stack[t][i - 1].kind
          /\ stack[t][i].hold0 =
                IF stack[t][i].kind = "fwd" THEN stack[t][i - 1].hold0 + 1
                                             ELSE stack[t][i - 1].hold0 - 1
    /\ (TopIs(t, "fwd") /\ pc[t] \in {"native", "relock"})
          => Hold(t) = Top(t).hold0 - 1
    /\ (TopIs(t, "tramp") /\ pc[t] \in {"prepare_read", "prepare_lock"})
          => Hold(t) = Top(t).hold0
    /\ (TopIs(t, "tramp") /\ pc[t] = "lua") => Hold(t) = Top(t).hold0 + 1

\* A forward call returns to Lua with the count it was entered with, and a
\* trampoline that returns by its last statement returns to the native code
\* with the count it was entered with.
ReturnRestores(t) ==
    /\ (pc[t] = "relock" /\ pc'[t] = "lua") => (IF owner' = t THEN depth' ELSE 0) = Top(t).hold0
    /\ (pc[t] = "lua" /\ TopIs(t, "tramp") /\ pc'[t] = "native"
          /\ stack'[t] = Pop(stack[t]) /\ depth' # depth)
          => (IF owner' = t THEN depth' ELSE 0) = Top(t).hold0

C5_Scenario ==
    /\ active = Threads
    /\ InForwardNative("A")
    /\ pc["B"] \in {"prepare_read", "prepare_lock"}

C6_CachedPlanReused ==
    [][/\ \A k \in Keys : cache[k] # NoPlan => cache'[k] = cache[k]
       /\ \A k \in Keys :
            (cache[k] # NoPlan /\ last'.key = k) =>
                (last'.outcome = "cached" /\ last'.plan = cache[k] /\ created' = created)]_vars

\* A build answered from the cache although another plan was allocated after
\* the cached one.
C6_Witness ==
    /\ last.outcome = "cached"
    /\ last.plan = cache[last.key]
    /\ last.plan.id < created

\* C7: a build that fails (symbol not found, or ffi_prep_cif refusing the
\* signature) leaves the cache as it was, with no entry for the key, and the
\* next build for that key allocates and builds a complete plan afresh.
C7_FailedBuildLeavesCache ==
    /\ [](last.outcome = "error" => cache[last.key] = NoPlan)
    /\ [][last'.outcome = "error" => cache' = cache]_vars
    /\ [][(last.outcome = "error" /\ last'.key = last.key) =>
            /\ created' = created + 1
            /\ last'.outcome \in {"built", "error"}
            /\ last'.outcome = "built" =>
                 /\ last'.plan = NewCallable(created', last'.info, last'.plan.address)
                 /\ cache'[last'.key] = last'.plan]_vars

\* The third allocation built the plan of a key while the first is cached
\* under the other key: the second was a failed build for this same key.
C7_Witness ==
    /\ last.outcome = "built"
    /\ last.plan.id = 3
    /\ \E k \in Keys : k # last.key /\ cache[k].id = 1

\* Parameter j is the array-length index of a C array (return type or
\* parameter), or the closure or destroy index some parameter declares.
Companion(d, j) ==
    \E r \in d.refs : r[3] = j /\ r[2] \in {"closure", "destroy", "array_c"}

\* C10: in every built plan, parameter j is internal exactly when it is such
\* a companion index.
C10_InternalIffCompanion ==
    \A k \in Keys :
        cache[k] # NoPlan =>
            \A j \in 0 .. (cache[k].nargs - 1) :
                cache[k].internal[j] <=> Companion(infos[cache[k].info], j)


(***************************************************************************)
(* Claims about the results of a forward invocation.                       *)
(***************************************************************************)

\* C8: when the native call sets the error, callable_call returns exactly
\* the leading value (false for a void return type, else the marshalled
\* return value), the message and the code; no value of an output parameter
\* is among the results.
C8_ErrorResults ==
    (cpc = "returned" /\ err) =>
        results = <<IF plan.retVoid THEN Val("false", 0) ELSE Val("ret", 0),
                    Val("msg", 0), Val("code", 0)>>

\* The value of the non-internal out or inout parameter i: the pre-created
\* one of a caller-allocated output, else the one marshalled after the call.
OutputValue(p, i) ==
    IF p.params[i].dir = "out" /\ p.params[i].ca THEN Val("ca", i) ELSE Val("out", i)

RECURSIVE OutputsFrom(_, _)
OutputsFrom(p, i) ==
    IF i > p.nargs THEN << >>
    ELSE (IF ~p.params[i].internal /\ p.params[i].dir # "in"
          THEN <<OutputValue(p, i)>> ELSE << >>) \o OutputsFrom(p, i + 1)

ExpectedResults(p) ==
    LET list == (IF p.retVoid THEN << >> ELSE <<Val("ret", 0)>>) \o OutputsFrom(p, 1)
    IN IF list = << >> /\ p.throws THEN <<Val("true", 0)>> ELSE list

C11_NoDestroyWhileRunning ==
    [][\A x \in Thunks :
          destroyed'[x] > destroyed[x] =>
              \A i \in 1 .. Len(thunkStack) : thunkStack[i] # x]_vars

\* C20: whatever the sequence of invocations and collections,
\* lgi_closure_destroy runs at most once on a thunk (the native side calls
\* no destroyed thunk: thunk_invoke).
C20_DestroyedAtMostOnce ==
    \A x \in Thunks : destroyed[x] <= 1


(***************************************************************************)
(* Claims about the trampolines on the Lua stack.                          *)
(***************************************************************************)

\* The target of the typed invocation failed.
TargetFailed == tpc = "raised" \/ (tpc \in {"after", "done"} /\ tres # 0)

\* C12: when the target of a typed trampoline fails (a called target raises,
\* a resumed one ends with any failure status) and the plan does not throw,
\* the failure is raised again and nothing passes through an error slot;
\* when the plan throws, exactly one GError with the message is written
\* through the slot has_self + nargs and nothing else is marshalled.
C12_FailureHandling ==
    (tcl.kind = "typed" /\ TargetFailed) =>
        IF tcl.plan.throws
        THEN /\ tpc # "raised"
             /\ tpc = "done" =>
                  writes = << <<"err", (IF tcl.plan.has_self THEN 1 ELSE 0) + tcl.plan.nargs,
                                Val("errmsg", 0)>> >>
        ELSE tpc = "raised" /\ writes = << >>

\* The j-th value the target produced; none when it produced fewer.
ResultValue(j) == IF j <= tk THEN Val("res", j) ELSE Val("none", 0)

RECURSIVE ExpectedOutputs(_, _, _)
ExpectedOutputs(p, i, j) ==
    IF i > p.nargs THEN << >>
    ELSE IF ~p.params[i].internal /\ p.params[i].dir # "in"
         THEN << <<"arg", i - 1 + (IF p.has_self THEN 1 ELSE 0), ResultValue(j)>> >>
                  \o ExpectedOutputs(p, i + 1, j + 1)
         ELSE ExpectedOutputs(p, i + 1, j)

ExpectedWrites(p) ==
    IF p.retVoid THEN ExpectedOutputs(p, 1, 1)
    ELSE << <<"ret", 0, ResultValue(1)>> >> \o ExpectedOutputs(p, 1, 2)

\* C14: after a successful typed invocation the first result went to the
\* return slot (non-void return type) and the following results, one each in
\* declaration order, to the slots i + has_self of the non-internal out and
\* inout parameters.
C14_ResultsMarshalled ==
    (tcl.kind = "typed" /\ tpc = "done" /\ tres = 0) => writes = ExpectedWrites(tcl.plan)

\* C17: every completed invocation of the event trampoline marshalled one
\* value to return_value: the first value the target produced, nil when it
\* produced none.
C17_EventSingleResult ==
    (tcl.kind = "event" /\ tpc = "done") =>
        writes = << <<"ret", 0, IF tk >= 1 THEN Val("res", 1) ELSE Val("nil", 0)>> >>

\* An event invocation whose target returned two values, entered with a
\* value already on the stack.
C17_Witness ==
    /\ tcl.kind = "event" /\ tpc = "done"
    /\ tk = 2
    /\ Len(tstack) = 2
    /\ writes = << <<"ret", 0, Val("res", 1)>> >>

\* C18: a trampoline whose target is a coroutine resumes that coroutine on
\* every invocation, whichever context created it; any other target is
\* called.
C18_ResumesTarget ==
    \A i \in 1 .. Len(invoked) :
        IF tcl.isThread
        THEN invoked[i] = [mode |-> "resume", ctx |-> tcl.target]
        ELSE invoked[i].mode = "call"


(***************************************************************************)
(* Claims about the arguments of a forward invocation.                     *)
(***************************************************************************)

\* The reads the input pass is to make from parameter i on, the next one
\* being the j-th argument after the callable.
RECURSIVE ExpectedReads(_, _, _)
ExpectedReads(p, i, j) ==
    IF i > p.nargs THEN << >>
    ELSE IF ~p.params[i].internal /\ p.params[i].dir # "out"
         THEN << <<i, j + 1>> >> \o ExpectedReads(p, i + 1, j + 1)
         ELSE ExpectedReads(p, i + 1, j)

\* C13: the j-th argument after the callable (the receiver first, when
\* has_self) goes to the j-th non-internal parameter that is not out;
\* internal and out parameters read nothing; every index read lies in the
\* normalised slots and holds the argument passed there or nil, never a
\* caller-allocated value or a temporary.
C13_ArgumentMapping ==
    cpc # "entry" =>
        /\ [r \in 1 .. Len(argReads) |-> <<argReads[r][1], argReads[r][2]>>] =
              (IF plan.has_self THEN << <<0, 2>> >> \o ExpectedReads(plan, 1, 2)
                                ELSE ExpectedReads(plan, 1, 1))
        /\ \A r \in 1 .. Len(argReads) :
              /\ argReads[r][2] <= (IF plan.has_self THEN 1 ELSE 0) + plan.nargs + 1
              /\ argReads[r][3] \in {Val("arg", argReads[r][2] - 1), Val("nil", 0)}

\* The second parameter read a missing argument as nil after the first had
\* left a temporary on the stack.
C13_Witness ==
    /\ cpc = "native"
    /\ plan.nargs = 2 /\ ~plan.has_self
    /\ plan.params[1].dir = "inout" /\ plan.params[1].temps > 0
    /\ argReads = << <<1, 2, Val("arg", 1)>>, <<2, 3, Val("nil", 0)>> >>
    /\ Len(lstack) > 3


\* C15: every cached plan's call interface has has_self + nargs + throws
\* slots: the pointer slot of the receiver when there is one, then one slot
\* per declared parameter in order (the mapped type of an in parameter, the
\* pointer type of an out or inout one), then the pointer slot of the error
\* when the plan reports errors; and the ffi_args array of a forward call
\* has an entry at exactly these positions, each pointing at its own slot.
Slots(p) == (IF p.has_self THEN 1 ELSE 0) + p.nargs + (IF p.throws THEN 1 ELSE 0)
C15_SlotLayout ==
    /\ \A k \in Keys :
          LET p == cache[k]
              self == IF p.has_self THEN 1 ELSE 0
          IN p # NoPlan =>
                /\ p.cif.n = Slots(p)
                /\ DOMAIN p.cif.types = 1 .. Slots(p)
                /\ p.has_self => p.cif.types[1] = FfiPointer
                /\ \A i \in 0 .. (p.nargs - 1) :
                      p.cif.types[i + self + 1] =
                         (IF infos[p.info].dirs[i] = "in" THEN <<"mapped", i>> ELSE FfiPointer)
                /\ p.throws => p.cif.types[Slots(p)] = FfiPointer
    /\ frame # NoFrame =>
          /\ DOMAIN frame.args = 0 .. (frame.plan.cif.n - 1)
          /\ \A a \in DOMAIN frame.args : frame.args[a][2] = a
          /\ frame.plan.throws => frame.args[frame.plan.cif.n - 1][1] = "redirect_err"

C15_Witness ==
    /\ frame # NoFrame
    /\ frame.plan.has_self /\ frame.plan.throws /\ frame.plan.nargs = 2
    /\ frame.plan.cif.types = <<FfiPointer, <<"mapped", 0>>, FfiPointer, FfiPointer>>
    /\ frame.args = [a \in 0 .. 3 |->
                       IF a = 2 THEN <<"redirect_out", 2>>
                       ELSE IF a = 3 THEN <<"redirect_err", 3>> ELSE <<"args", a>>]

\* C16: a cached plan reports errors exactly when the description it was
\* built from declares that it can fail.
C16_ThrowsIffDeclared ==
    \A k \in Keys :
        cache[k] # NoPlan => (cache[k].throws <=> infos[cache[k].info].throws)


\* C19: a forward invocation changes its thread's hold count only by the
\* unlock before the native call and the lock after it: the count is one
\* below the entry count from the unlock to the lock, and the entry count
\* when the invocation fails before the call, when it fails after it, and
\* when the error has left it; no step of a forward invocation changes the
\* callable cache.
HoldNext(t) == IF owner' = t THEN depth' ELSE 0
InForward(t) == t \in active /\ TopIs(t, "fwd")
C19_ForwardHoldCount ==
    /\ [](\A t \in Threads :
            /\ (InForward(t) /\ pc[t] \in {"error_in", "error_out"}) => Hold(t) = Top(t).hold0
            /\ (InForward(t) /\ pc[t] \in {"native", "relock"}) => Hold(t) = Top(t).hold0 - 1)
    /\ [][\A t \in Threads :
            /\ (t \in active /\ pc[t] = "lua" /\ pc'[t] = "error_in") => HoldNext(t) = Hold(t)
            /\ (InForward(t) /\ pc[t] \in {"error_in", "error_out"} /\ pc'[t] # pc[t])
                  => (HoldNext(t) = Top(t).hold0 /\ stack'[t] = Pop(stack[t]))
            /\ (InForward(t) /\ pc'[t] # pc[t]) => cache' = cache]_vars

\* A forward call made by a target fails after its native function returned:
\* the thread holds the mutex as often as when it entered the call.
C19_Witness ==
    \E t \in active :
        /\ pc[t] = "error_out"
        /\ Len(stack[t]) = 3 /\ TopIs(t, "fwd")
        /\ stack[t][1].kind = "fwd" /\ stack[t][2].kind = "tramp"
        /\ Hold(t) = Top(t).hold0 /\ Hold(t) = 1


(***************************************************************************)
(* Claims about the caller-allocated outputs of a forward call.            *)
(***************************************************************************)

\* C21: g_assert (caller_allocated == 0) holds at the end of every forward
\* invocation that the native function did not fail: the counter, raised
\* in the input pass and lowered in the output pass, ends at zero.
C21_AssertHolds ==
    /\ cpc # "aborted"
    /\ (cpc = "returned" /\ ~err) => caller_allocated = 0

\* The pre-created values of the caller-allocated outputs from parameter i
\* on, and the temporaries of the inputs, in declaration order.
RECURSIVE PreCreated(_, _)
PreCreated(p, i) ==
    IF i > p.nargs THEN << >>
    ELSE (IF ~p.params[i].internal /\ p.params[i].dir = "out" /\ p.params[i].ca
          THEN <<Val("ca", i)>> ELSE << >>) \o PreCreated(p, i + 1)
RECURSIVE Temporaries(_, _)
Temporaries(p, i) ==
    IF i > p.nargs THEN << >>
    ELSE (IF ~p.params[i].internal /\ p.params[i].dir # "out"
          THEN [j \in 1 .. p.params[i].temps |-> Val("tmp", i)] ELSE << >>)
         \o Temporaries(p, i + 1)
Normalized(p) == (IF p.has_self THEN 1 ELSE 0) + p.nargs + 1
Above(p, s) == SubSeq(s, Normalized(p) + 1, Len(s))

\* C22: above the normalised arguments the stack holds the caller-allocated
\* values in declaration order, then the temporaries; and the position
\* handed to lgi_marshal_arg_2c_caller_alloc in the output pass is that of
\* the parameter's own pre-created value.
C22_Layout ==
    cpc \in {"native", "back"} =>
        Above(plan, lstack) = PreCreated(plan, 1) \o Temporaries(plan, 1)
C22_OwnPosition ==
    /\ C22_Layout
    /\ \A r \in 1 .. Len(posLog) : posLog[r][3] = Val("ca", posLog[r][1])


\* C23: the plan lgi_callable_create returns for a description that is not
\* a function has the address that was passed to this call, whatever was
\* built for the key before.
C23_ExplicitAddress ==
    (last.outcome \in {"built", "cached"} /\ infos[last.info].itype # "function")
        => last.plan.address = last.addr


(***************************************************************************)
(* Claims about the context of a trampoline.                               *)
(***************************************************************************)

\* C24: a trampoline with a callable target never calls it on a context
\* whose status is not 0; once callback_prepare_call has switched to a new
\* context every later invocation runs on it; the registry holds exactly
\* one reference to a context, the one Callback.L names; and while no
\* invocation is inside the mutex the stacks of all contexts are as they
\* were before the first invocation.
C24_ContextSwitch ==
    /\ \A i \in 1 .. Len(ran) : ran[i].status = 0
    /\ \A i, j \in 1 .. Len(ran) : (i < j /\ ran[i].switched) => ran[j].ctx = ran[i].ctx
    /\ Cardinality({r \in RefIds : registry[r][1] = "thread"}) = 1
    /\ registry[callback.thread_ref] = Val("thread", callback.L)
    /\ (sOwner = NoThread /\ ~sCrashed) => ctxStack = ctxEntry

\* C25: every invocation of a trampoline with a callable target, typed or
\* event, that returns to its native caller leaves the stack of the context
\* it ran on as it was when the invocation began.
C25_StackRestored ==
    (tpc = "done" /\ tcl.call) => tstack = tentry

====
